---- MODULE Spec2Model ----
(***************************************************************************)
(* Blog-Site: the markdown post page (blogpost/[slug]/page.js), its table  *)
(* of contents (components/onThisPage), the blog listing and its cards,    *)
(* the contact form with its /api/contact route, the typing animation of   *)
(* the home page and the resize listener of the about page.                *)
(*                                                                         *)
(* Text is a sequence of one-character strings so that the slugger can be  *)
(* computed character by character.  A file of the content directory is a  *)
(* record: front matter plus a body, the body a sequence of markdown       *)
(* blocks.                                                                 *)
(***************************************************************************)
EXTENDS Integers, Sequences, FiniteSets, TLC

\* ---------------------------------------------------------------- bounds
\* Largest number of markdown blocks in the body of a document.
MaxBlocks == 2
\* Largest number of requests sent to /api/contact in one behaviour.
MaxRequests == 2
\* Largest number of requests of Page that are suspended at one time.
MaxInflight == 2
\* Largest number of Home components on display at one time.
MaxHomes == 2
\* Largest number of Typed instances created in one behaviour.
MaxTyped == 4
\* Largest number of renders of one Home component after its mount.
MaxRenders == 2
\* Largest number of resize events that wait to be dispatched.
MaxEvents == 3

\* ------------------------------------------------------------ input sets
\* File names (without ".md") that may exist in the content directory.
FileNames == {"a", "b"}
\* Values of the front-matter key "slug".
MetaSlugs == {"a", "b"}
\* Slugs a request may carry.
RequestSlugs == {"a", "b", "zz", "hello"}
\* Heading texts: upper case, the text of a suffixed slug, and punctuation
\* between spaces.
HeadingTexts ==
  { <<"A">>, <<"a", "-", "1">>, <<"A", " ", "&", " ", "b">> }
\* What the inputs of the contact form may hold.
FieldValues == {"", "x"}
\* How transporter.sendMail may settle: resolved, rejected for the
\* credentials, rejected by the transport (the mail server is unreachable).
SendOutcomes == {"ok", "auth", "unreachable"}
ParaText == <<"t">>

\* --------------------------------------------------------- the documents
\* A block of markdown source: its leading marker and its text.  "#", "##"
\* and "###" open headings, "" a paragraph, "~~~js" a fenced code block in
\* a language the highlighter knows, "~~~zz" one in a language it does not.
HeadingMarkers == {"#", "##", "###"}
FenceMarkers == {"~~~js", "~~~zz"}
\* The languages the highlighter has a grammar for.
KnownLangs == {"js"}

\* A heading whose text is punctuation only.
PunctuationHeading == [marker |-> "##", text |-> <<"&">>]

\* Headings of every level with one text, level-two headings with every
\* text, a paragraph, and the fenced blocks.
Blocks ==
  { [marker |-> m, text |-> <<"A">>] : m \in HeadingMarkers }
    \cup { [marker |-> "##", text |-> t] : t \in HeadingTexts }
    \cup { PunctuationHeading }
    \cup { [marker |-> "", text |-> ParaText] }
    \cup { [marker |-> m, text |-> ParaText] : m \in FenceMarkers }

RECURSIVE SeqsUpTo(_, _)
SeqsUpTo(S, n) ==
  IF n = 0 THEN { <<>> }
  ELSE LET shorter == SeqsUpTo(S, n - 1)
       IN  shorter \cup { Append(s, x) : s \in { q \in shorter : Len(q) = n - 1 }, x \in S }

\* The mapping without any key: every key reads as undefined, here "".
EmptyData == [slug |-> "", title |-> ""]

\* fm tells what the file starts with: "valid" for a fenced block of YAML,
\* "absent" for no fenced block, "malformed" for a fenced block that is not
\* YAML.  front is what the block says when it is valid.
NoFile == [exists |-> FALSE, fm |-> "absent", front |-> EmptyData, body |-> <<>>]

FilesWith(slugs, bodies) ==
  { NoFile } \cup
  { [exists |-> TRUE, fm |-> "valid", front |-> [slug |-> s, title |-> "Hello"],
     body |-> b] : s \in slugs, b \in bodies }

\* Files without a usable front matter.
OddFiles(bodies) ==
  { [exists |-> TRUE, fm |-> k, front |-> EmptyData, body |-> b] :
      k \in {"absent", "malformed"}, b \in bodies }

\* A content directory with the single document hello.md: title "Hello",
\* slug "hello", the heading "## Section One" and a paragraph.
SectionOne == <<"S", "e", "c", "t", "i", "o", "n", " ", "O", "n", "e">>

HelloStore ==
  [f \in {"hello"} |->
     [exists |-> TRUE, fm |-> "valid", front |-> [slug |-> "hello", title |-> "Hello"],
      body |-> << [marker |-> "##", text |-> SectionOne],
                  [marker |-> "", text |-> ParaText] >>]]

\* Short bodies: empty, or one heading that a longer body may hold too.
ShortBodies == { <<>>, << [marker |-> "##", text |-> <<"A">>] >> }

\* Content directories for the rendering of a document: the first file holds
\* any body of at most MaxBlocks blocks, the second a short one, each under
\* the slug of its name, and either may be missing.
RenderStores ==
  { [f \in FileNames |-> IF f = "a" THEN x ELSE y] :
      x \in FilesWith({"a"}, SeqsUpTo(Blocks, MaxBlocks)),
      y \in FilesWith({"b"}, ShortBodies) }
    \cup { HelloStore }

\* Content directories for the lookup of a document: short bodies, any
\* front-matter slug or no usable front matter in any file.
LookupFiles == FilesWith(MetaSlugs, ShortBodies) \cup OddFiles(ShortBodies)

LookupStores ==
  { [f \in FileNames |-> IF f = "a" THEN x ELSE y] : x \in LookupFiles, y \in LookupFiles }

\* ------------------------------------------------------- github-slugger
UpperCase ==
  << "A", "B", "C", "D", "E", "F", "G", "H", "I", "J", "K", "L", "M",
     "N", "O", "P", "Q", "R", "S", "T", "U", "V", "W", "X", "Y", "Z" >>
LowerCase ==
  << "a", "b", "c", "d", "e", "f", "g", "h", "i", "j", "k", "l", "m",
     "n", "o", "p", "q", "r", "s", "t", "u", "v", "w", "x", "y", "z" >>
Digits == {"0", "1", "2", "3", "4", "5", "6", "7", "8", "9"}

\* value.toLowerCase(), one character at a time.
Lower(c) ==
  IF \E i \in 1..Len(UpperCase) : UpperCase[i] = c
  THEN LowerCase[CHOOSE i \in 1..Len(UpperCase) : UpperCase[i] = c]
  ELSE c

IsAlnum(c) == c \in { LowerCase[i] : i \in 1..Len(LowerCase) } \cup Digits

\* The characters the slugger regular expression leaves in place.
Kept(c) == IsAlnum(c) \/ c \in {"-", "_", " "}

\* A slugger that puts one separator in place of each run of characters
\* that are neither letters nor digits.
RECURSIVE SingleSeparator(_, _)
SingleSeparator(value, inRun) ==
  IF value = <<>> THEN <<>>
  ELSE LET c == Lower(Head(value))
       IN  IF IsAlnum(c) THEN <<c>> \o SingleSeparator(Tail(value), FALSE)
           ELSE IF inRun THEN SingleSeparator(Tail(value), TRUE)
           ELSE <<"-">> \o SingleSeparator(Tail(value), TRUE)

SluggerSingleSeparator(value) == SingleSeparator(value, FALSE)

\* value.toLowerCase().replace(regex, "").replace(/ /g, "-")
RECURSIVE Slugger(_)
Slugger(value) ==
  IF value = <<>> THEN <<>>
  ELSE LET c == Lower(Head(value))
           rest == Slugger(Tail(value))
       IN  IF ~Kept(c) THEN rest
           ELSE IF c = " " THEN <<"-">> \o rest
           ELSE <<c>> \o rest

Digit(n) == <<"0", "1", "2", "3", "4", "5", "6", "7", "8", "9">>[n + 1]

RECURSIVE NatToStr(_)
NatToStr(n) == IF n < 10 THEN <<Digit(n)>> ELSE NatToStr(n \div 10) \o <<Digit(n % 10)>>

\* occ is the slugger's occurrences table, a function from slugs to counts.
Put(occ, k, v) == [x \in DOMAIN occ \cup {k} |-> IF x = k THEN v ELSE occ[x]]

\* The while loop of BananaSlug.slug: returns the table and the result.
RECURSIVE SlugLoop(_, _, _)
SlugLoop(occ, original, result) ==
  IF result \in DOMAIN occ
  THEN LET occ2 == Put(occ, original, occ[original] + 1)
       IN  SlugLoop(occ2, original, original \o <<"-">> \o NatToStr(occ2[original]))
  ELSE [occ |-> Put(occ, result, 0), result |-> result]

SlugNoSuffix(occ, value) == [occ |-> Put(occ, Slugger(value), 0), result |-> Slugger(value)]

SluggerSlug(occ, value) == SlugLoop(occ, Slugger(value), Slugger(value))

\* ------------------------------------------------- the unified processor
EmptyOcc == [x \in {} |-> 0]

MdNode(type, depth, text, lang) ==
  [type |-> type, depth |-> depth, text |-> text, lang |-> lang]

\* remark-parse: markdown source to mdast nodes.
ParseBlock(b) ==
  CASE b.marker = "#" -> MdNode("heading", 1, b.text, "")
    [] b.marker = "##" -> MdNode("heading", 2, b.text, "")
    [] b.marker = "###" -> MdNode("heading", 3, b.text, "")
    [] b.marker = "~~~js" -> MdNode("code", 0, b.text, "js")
    [] b.marker = "~~~zz" -> MdNode("code", 0, b.text, "zz")
    [] OTHER -> MdNode("paragraph", 0, b.text, "")

\* The field slugs of a tree is the occurrences table of the slugger that
\* rehype-slug keeps at module level, as the run finds it and leaves it.
remarkParse(content) ==
  [kind |-> "mdast", wrapped |-> FALSE, title |-> "", slugs |-> EmptyOcc,
   children |-> [i \in 1..Len(content) |-> ParseBlock(content[i])]]

Element(tag, text, lang) ==
  [tag |-> tag, text |-> text, hasId |-> FALSE, id |-> <<>>,
   hasLink |-> FALSE, href |-> <<>>, lang |-> lang, hl |-> FALSE, copy |-> FALSE]

HeadingTag(depth) == <<"h1", "h2", "h3", "h4", "h5", "h6">>[depth]
HeadingTags == {"h1", "h2", "h3", "h4", "h5", "h6"}

\* remark-rehype: mdast to hast.
ToHast(n) ==
  CASE n.type = "heading" -> Element(HeadingTag(n.depth), n.text, "")
    [] n.type = "code" -> Element("pre", n.text, n.lang)
    [] OTHER -> Element("p", n.text, "")

remarkRehype(tree) ==
  [tree EXCEPT !.kind = "hast",
               !.children = [i \in 1..Len(tree.children) |-> ToHast(tree.children[i])]]

\* rehype-document: wraps the fragment in doctype, html, head and body.
rehypeDocument(tree) == [tree EXCEPT !.wrapped = TRUE, !.title = "wave-globe"]

\* rehype-format: a whitespace text node before every block.
Whitespace == Element("#ws", <<>>, "")

RECURSIVE Indent(_)
Indent(children) ==
  IF children = <<>> THEN <<>>
  ELSE <<Whitespace, Head(children)>> \o Indent(Tail(children))

rehypeFormat(tree) ==
  [tree EXCEPT !.children = Indent(SelectSeq(tree.children, LAMBDA e : e.tag # "#ws"))]

\* rehype-autolink-headings: a heading that has an id gets a link to itself.
Autolink(e) ==
  IF e.tag \in HeadingTags /\ e.hasId
  THEN [e EXCEPT !.hasLink = TRUE, !.href = <<"#">> \o e.id]
  ELSE e

rehypeAutolinkHeadings(tree) ==
  [tree EXCEPT !.children = [i \in 1..Len(tree.children) |-> Autolink(tree.children[i])]]

\* rehype-slug: slugs.reset(), then every heading without an id gets one.
RECURSIVE SlugAll(_, _)
SlugAll(occ, children) ==
  IF children = <<>> THEN [occ |-> occ, children |-> <<>>]
  ELSE LET e == Head(children)
       IN  IF e.tag \in HeadingTags /\ ~e.hasId
           THEN LET r == SluggerSlug(occ, e.text)
                    rest == SlugAll(r.occ, Tail(children))
                IN  [rest EXCEPT
                       !.children = <<[e EXCEPT !.hasId = TRUE, !.id = r.result]>> \o @]
           ELSE LET rest == SlugAll(occ, Tail(children))
                IN  [rest EXCEPT !.children = <<e>> \o @]

\* A slugger that is not reset: it goes on with the table it finds.
SlugsKept(occ) == occ

\* slugs.reset()
SlugsReset(occ) == EmptyOcc

\* The transformer is one synchronous function over the whole tree.
rehypeSlug(tree) ==
  LET r == SlugAll(SlugsReset(tree.slugs), tree.children)
  IN  [tree EXCEPT !.children = r.children, !.slugs = r.occ]

\* A highlighter that colours a block whatever its language tag says.
PrettyCodeAnyLang(e) ==
  IF e.tag = "pre" THEN [e EXCEPT !.hl = TRUE, !.copy = TRUE] ELSE e

\* rehype-pretty-code with transformerCopyButton: a block in a language
\* without a grammar is rendered as plain text.
PrettyCode(e) ==
  IF e.tag = "pre" THEN [e EXCEPT !.hl = (e.lang \in KnownLangs), !.copy = TRUE] ELSE e

rehypePrettyCode(tree) ==
  [tree EXCEPT !.children = [i \in 1..Len(tree.children) |-> PrettyCode(tree.children[i])]]

\* rehype-stringify: the tree as a sequence of markup tokens.
Token(k, tag, hasId, id, text) ==
  [k |-> k, tag |-> tag, hasId |-> hasId, id |-> id, text |-> text]

ElementTokens(e) ==
  IF e.tag = "#ws" THEN << Token("text", "", FALSE, <<>>, <<>>) >>
  ELSE << Token("open", e.tag, e.hasId, e.id, <<>>) >>
       \o (IF e.hasLink THEN << Token("open", "a", FALSE, <<>>, e.href),
                                 Token("close", "a", FALSE, <<>>, <<>>) >>
            ELSE <<>>)
       \o (IF e.copy THEN << Token("open", "button", FALSE, <<>>, <<>>),
                              Token("close", "button", FALSE, <<>>, <<>>) >>
            ELSE <<>>)
       \o (IF e.hl THEN << Token("open", "span", FALSE, <<>>, <<>>) >> ELSE <<>>)
       \o << Token("text", "", FALSE, <<>>, e.text) >>
       \o (IF e.hl THEN << Token("close", "span", FALSE, <<>>, <<>>) >> ELSE <<>>)
       \o << Token("close", e.tag, FALSE, <<>>, <<>>) >>

RECURSIVE ChildrenTokens(_)
ChildrenTokens(children) ==
  IF children = <<>> THEN <<>>
  ELSE ElementTokens(Head(children)) \o ChildrenTokens(Tail(children))

rehypeStringify(tree) ==
  IF tree.wrapped
  THEN << Token("doctype", "", FALSE, <<>>, <<>>),
          Token("open", "html", FALSE, <<>>, <<>>),
          Token("open", "head", FALSE, <<>>, <<>>),
          Token("open", "title", FALSE, <<>>, <<>>),
          Token("text", "", FALSE, <<>>, <<tree.title>>),
          Token("close", "title", FALSE, <<>>, <<>>),
          Token("close", "head", FALSE, <<>>, <<>>),
          Token("open", "body", FALSE, <<>>, <<>>) >>
       \o ChildrenTokens(tree.children)
       \o << Token("close", "body", FALSE, <<>>, <<>>),
             Token("close", "html", FALSE, <<>>, <<>>) >>
  ELSE ChildrenTokens(tree.children)

\* The plugins in the order page.js attaches them with .use().
Chain ==
  << "remarkParse", "remarkRehype", "rehypeDocument", "rehypeFormat",
     "rehypeStringify", "rehypeAutolinkHeadings", "rehypeSlug", "rehypePrettyCode" >>

\* unified: a plugin that sets the parser or the compiler adds no
\* transformer; every other plugin appends one to the run pipeline.
IsTransformer(p) == p \notin {"remarkParse", "rehypeStringify"}

Transform(p, tree) ==
  CASE p = "remarkRehype" -> remarkRehype(tree)
    [] p = "rehypeDocument" -> rehypeDocument(tree)
    [] p = "rehypeFormat" -> rehypeFormat(tree)
    [] p = "rehypeAutolinkHeadings" -> rehypeAutolinkHeadings(tree)
    [] p = "rehypeSlug" -> rehypeSlug(tree)
    [] p = "rehypePrettyCode" -> rehypePrettyCode(tree)
    [] OTHER -> tree

RECURSIVE Run(_, _)
Run(plugins, tree) ==
  IF plugins = <<>> THEN tree
  ELSE Run(Tail(plugins), Transform(Head(plugins), tree))

\* A processor that serialises at the place rehypeStringify was attached:
\* the plugins attached after it no longer reach the string.
ProcessInChainOrder(content, table) ==
  LET before == SelectSeq(SubSeq(Chain, 1, 4), IsTransformer)
      after == SelectSeq(SubSeq(Chain, 6, 8), IsTransformer)
      frozen == Run(before, [remarkParse(content) EXCEPT !.slugs = table])
  IN  [tree |-> Run(after, frozen), value |-> rehypeStringify(frozen)]

\* The transformer that returns a promise: the run pipeline is suspended
\* there and other requests may run in between.
Suspends(p) == p = "rehypePrettyCode"

Transformers == SelectSeq(Chain, IsTransformer)
FirstSuspend == CHOOSE i \in 1..Len(Transformers) : Suspends(Transformers[i])

\* The run up to the first promise, which finds the slugger as table.
RunSync(content, table) ==
  Run(SubSeq(Transformers, 1, FirstSuspend - 1),
      [remarkParse(content) EXCEPT !.slugs = table])

\* The rest of the run and the compiler.
RunRest(tree) ==
  LET done == Run(SubSeq(Transformers, FirstSuspend, Len(Transformers)), tree)
  IN  [tree |-> done, value |-> rehypeStringify(done)]

\* file.process(content): parse, run every transformer in the order of
\* attachment, then compile.
Process(content, table) ==
  LET tree == Run(Transformers, [remarkParse(content) EXCEPT !.slugs = table])
  IN  [tree |-> tree, value |-> rehypeStringify(tree)]

\* ------------------------------------------------------------ the state
VARIABLES
  store,      \* the content directory: file name -> file
  dirContent, \* fs.readdirSync("content"), in the order the system returns
  blogs,      \* the front matter of every listed file, read at module load
  listing,    \* what the last render of BlogSection produced
  slugs,      \* the occurrences table of the slugger of rehype-slug
  inflight,   \* the requests of Page that are suspended in their run
  clicked,    \* the file the card that was followed was built from, or ""
  page,       \* what the last call of Page returned
  toc,        \* the OnThisPage component: its prop, its state, its effect
  form,       \* the state of the Contact component
  reqs,       \* the requests sent to /api/contact, in order of sending
  mail,       \* the calls of transporter.sendMail, in order
  nav,        \* the select of OnThisPage and what it assigned to the location
  home,       \* the Home components and the Typed instances
  about,      \* the About component
  win         \* the window: its width, its resize listeners, its events

vars ==
  <<store, dirContent, blogs, listing, slugs, inflight, clicked, page, toc, form, reqs, mail,
    nav, home, about, win>>
siteVars == <<home, about, win>>
renderVars ==
  <<store, dirContent, blogs, listing, slugs, inflight, clicked, page, toc, nav, siteVars>>
contactVars == <<form, reqs, mail, nav, siteVars>>

\* --------------------------------------------------------- the post page
\* gray-matter: front matter and body of a file.  Without a fenced block the
\* data is empty and the text is the content; the YAML engine throws on a
\* block that is not YAML and gray-matter does not catch it.
matter(fileContent) ==
  CASE fileContent.fm = "valid" ->
         [threw |-> FALSE, data |-> fileContent.front, content |-> fileContent.body]
    [] fileContent.fm = "absent" ->
         [threw |-> FALSE, data |-> EmptyData, content |-> fileContent.body]
    [] OTHER -> [threw |-> TRUE, data |-> EmptyData, content |-> <<>>]

\* `content/${slug}.md`
FilePath(slug) == [dir |-> "content", name |-> slug, ext |-> "md"]

\* The segments of a slug between its path separators.
Segments(slug) == IF slug = "../README" THEN <<"..", "README">> ELSE <<slug>>

\* How the file system resolves a relative path: ".." leaves the directory
\* it is in, any other segment but the last enters a directory.
RECURSIVE Walk(_, _)
Walk(dirs, segs) ==
  IF Len(segs) = 1 THEN [dir |-> dirs, name |-> segs[1]]
  ELSE IF Head(segs) = ".." THEN Walk(SubSeq(dirs, 1, Len(dirs) - 1), Tail(segs))
  ELSE Walk(Append(dirs, Head(segs)), Tail(segs))

Resolve(path) == Walk(<<path.dir>>, Segments(path.name))

\* The markdown files of the project directory, next to content/.
ProjectRoot ==
  [f \in {"README"} |->
     [exists |-> TRUE, fm |-> "absent", front |-> EmptyData,
      body |-> << [marker |-> "##", text |-> <<"A">>] >>]]

\* The markdown files of a directory: st holds those of content/.
ReadDir(st, dirs) ==
  IF dirs = <<"content">> THEN st
  ELSE IF dirs = <<>> THEN ProjectRoot
  ELSE [f \in {} |-> NoFile]

\* fs.existsSync
ExistsSync(st, path) ==
  LET r == Resolve(path)
  IN  /\ path.ext = "md"
      /\ r.name \in DOMAIN ReadDir(st, r.dir)
      /\ ReadDir(st, r.dir)[r.name].exists

\* fs.readFileSync
ReadFileSync(st, path) == ReadDir(st, Resolve(path).dir)[Resolve(path).name]

NoTree ==
  [kind |-> "none", wrapped |-> FALSE, title |-> "", slugs |-> EmptyOcc, children |-> <<>>]

PageOutcome(status, slug, threw, file, data, tree, html) ==
  [status |-> status, slug |-> slug, threw |-> threw, file |-> file,
   data |-> data, tree |-> tree, htmlContent |-> html]

NoPage == PageOutcome("none", "", FALSE, "", EmptyData, NoTree, <<>>)

\* The body of Page once the file is known to exist.
RenderFile(st, slug, table) ==
  LET fileContent == ReadFileSync(st, FilePath(slug))
      parsed == matter(fileContent)
      file == Process(parsed.content, table)
  IN  IF parsed.threw
      THEN PageOutcome("threw", slug, TRUE, FilePath(slug).name, EmptyData, NoTree, <<>>)
      ELSE PageOutcome("rendered", slug, FALSE, FilePath(slug).name, parsed.data,
                       file.tree, file.value)

\* Page without the existsSync test: readFileSync throws on a missing file.
PageUnguarded(st, slug, table) ==
  IF ExistsSync(st, FilePath(slug))
  THEN RenderFile(st, slug, table)
  ELSE PageOutcome("threw", slug, TRUE, "", EmptyData, NoTree, <<>>)

\* Page with a placeholder document in place of a missing file.
PagePlaceholder(st, slug, table) ==
  IF ~ExistsSync(st, FilePath(slug))
  THEN LET file == Process(<< [marker |-> "", text |-> ParaText] >>, table)
       IN  PageOutcome("rendered", slug, FALSE, "", EmptyData, file.tree, file.value)
  ELSE RenderFile(st, slug, table)

\* Page({ params }): undefined when the file does not exist.
PageResult(st, slug, table) ==
  IF ~ExistsSync(st, FilePath(slug))
  THEN PageOutcome("undefined", slug, FALSE, "", EmptyData, NoTree, <<>>)
  ELSE RenderFile(st, slug, table)

\* The table of the slugger after a call of Page.
SlugsAfter(p, table) == IF p.status = "rendered" THEN p.tree.slugs ELSE table

\* The header of the post above the markup: the title between quotation
\* marks.
Chrome(p) == [title |-> p.data.title]

\* ------------------------------------------------------------ OnThisPage
Unmounted == [mounted |-> FALSE, htmlcontent |-> <<>>, headings |-> <<>>, pending |-> FALSE]

RECURSIVE TextContent(_, _)
TextContent(tokens, tag) ==
  IF tokens = <<>> THEN <<>>
  ELSE LET t == Head(tokens)
       IN  IF t.k = "close" /\ t.tag = tag THEN <<>>
           ELSE IF t.k = "text" THEN t.text \o TextContent(Tail(tokens), tag)
           ELSE TextContent(Tail(tokens), tag)

AnyHeadingSelector(tag) == tag \in HeadingTags

\* A selector for the top-level headings only.
H1Selector(tag) == tag = "h1"

\* A selector that also takes the text blocks: "h2, p, pre".
BlockSelector(tag) == tag \in {"h2", "p", "pre"}

\* The selector of div.querySelectorAll("h2").
Selector(tag) == tag = "h2"

\* Array.from(h2Elements).map(h2 => ({ text: h2.textContent, id: h2.id }))
RECURSIVE Topics(_)
Topics(tokens) ==
  IF tokens = <<>> THEN <<>>
  ELSE LET t == Head(tokens)
       IN  IF t.k = "open" /\ Selector(t.tag)
           THEN << [text |-> TextContent(Tail(tokens), t.tag),
                    id |-> IF t.hasId THEN t.id ELSE <<>>] >> \o Topics(Tail(tokens))
           ELSE Topics(Tail(tokens))

\* What OnThisPage renders: one list item with a link for every heading,
\* and a select whose first option is the label, then one option each.
ListItems(headings) ==
  [i \in 1..Len(headings) |->
     [href |-> <<"#">> \o headings[i].id, text |-> headings[i].text]]

Options(headings) ==
  << [value |-> <<>>, text |-> <<"On This Page">>] >>
    \o [i \in 1..Len(headings) |->
          [value |-> <<"#">> \o headings[i].id, text |-> headings[i].text]]

\* The select before any choice: its first option is selected and nothing
\* was assigned to window.location.href.
NoNav == [selected |-> 1, assigned |-> FALSE, href |-> <<>>]

\* The select after a render: gone with its component; otherwise it keeps
\* its selected index while that index has an option, and falls back to the
\* first option when it has none.
NavAfter(t) ==
  IF ~t.mounted THEN NoNav
  ELSE IF nav.selected > Len(Options(t.headings)) THEN [nav EXCEPT !.selected = 1]
  ELSE nav

\* React renders the page: OnThisPage receives the new htmlcontent, keeps
\* its state, and its effect is scheduled; a page without OnThisPage
\* unmounts it.
Mount(p) ==
  IF p.status = "rendered"
  THEN [mounted |-> TRUE, htmlcontent |-> p.htmlContent,
        headings |-> toc.headings,
        pending |-> (~toc.mounted \/ toc.pending \/ toc.htmlcontent # p.htmlContent)]
  ELSE Unmounted

\* A request for /blogpost/<slug> typed or linked from elsewhere.
Page(slug) ==
  /\ page' = PageResult(store, slug, slugs)
  /\ slugs' = SlugsAfter(page', slugs)
  /\ toc' = Mount(page')
  /\ nav' = NavAfter(toc')
  /\ clicked' = ""
  /\ UNCHANGED <<store, dirContent, blogs, listing, inflight, form, reqs, mail, siteVars>>

\* A request for /blogpost/<slug> up to the first promise of the run: the
\* request is suspended there while other requests are served.
PageBegin(slug) ==
  /\ Len(inflight) < MaxInflight
  /\ ExistsSync(store, FilePath(slug))
  /\ ~matter(ReadFileSync(store, FilePath(slug))).threw
  /\ LET parsed == matter(ReadFileSync(store, FilePath(slug)))
         tree == RunSync(parsed.content, slugs)
     IN  /\ inflight' = Append(inflight, [slug |-> slug, data |-> parsed.data, tree |-> tree])
         /\ slugs' = tree.slugs
  /\ UNCHANGED <<store, dirContent, blogs, listing, clicked, page, toc, form, reqs, mail, nav, siteVars>>

\* The i-th suspended request goes on to its end.
PageFinish(i) ==
  /\ i \in 1..Len(inflight)
  /\ LET r == inflight[i]
         file == RunRest(r.tree)
     IN  page' = PageOutcome("rendered", r.slug, FALSE, FilePath(r.slug).name, r.data,
                             file.tree, file.value)
  /\ inflight' = [j \in 1..(Len(inflight) - 1) |->
                    IF j < i THEN inflight[j] ELSE inflight[j + 1]]
  /\ toc' = Mount(page')
  /\ nav' = NavAfter(toc')
  /\ clicked' = ""
  /\ UNCHANGED <<store, dirContent, blogs, listing, slugs, form, reqs, mail, siteVars>>

\* blogs.slice(0, -1)
Listed == SubSeq(blogs.posts, 1, Len(blogs.posts) - 1)

\* BlogCard: what a card shows of its post and where its link leads.
BlogCard(post) ==
  [title |-> post.title, slug |-> post.slug, href |-> <<"blogpost", post.slug>>]

NoListing == [status |-> "none", cards |-> <<>>]

\* A request for the blog listing: BlogSection renders a card for every
\* listed post; a module whose load threw cannot render.
BlogSection ==
  /\ listing' = IF blogs.threw
                THEN [status |-> "threw", cards |-> <<>>]
                ELSE [status |-> "rendered",
                      cards |-> [i \in 1..Len(Listed) |-> BlogCard(Listed[i])]]
  /\ UNCHANGED <<store, dirContent, blogs, slugs, inflight, clicked, page, toc,
                 form, reqs, mail, nav, siteVars>>

\* Following the link of the i-th card: href = `blogpost/${post.slug}`.
ReadMore(i) ==
  /\ listing.status = "rendered"
  /\ i \in 1..Len(listing.cards)
  /\ page' = PageResult(store, listing.cards[i].href[2], slugs)
  /\ slugs' = SlugsAfter(page', slugs)
  /\ toc' = Mount(page')
  /\ nav' = NavAfter(toc')
  /\ clicked' = dirContent[i]
  /\ UNCHANGED <<store, dirContent, blogs, listing, inflight, form, reqs, mail, siteVars>>

\* An effect with an empty dependency list: it extracts after the first
\* render only and later fragments leave the headings as they are.
ExtractOnMountOnly ==
  /\ toc.mounted /\ toc.pending
  /\ toc' = IF toc.headings = <<>>
            THEN [toc EXCEPT !.headings = Topics(toc.htmlcontent), !.pending = FALSE]
            ELSE [toc EXCEPT !.pending = FALSE]
  /\ nav' = NavAfter(toc')
  /\ UNCHANGED <<store, dirContent, blogs, listing, slugs, inflight, clicked, page,
                 form, reqs, mail, siteVars>>

\* The effect of OnThisPage, run after the render that changed htmlcontent.
ExtractHeadings ==
  /\ toc.mounted /\ toc.pending
  /\ toc' = [toc EXCEPT !.headings = Topics(toc.htmlcontent), !.pending = FALSE]
  /\ nav' = NavAfter(toc')
  /\ UNCHANGED <<store, dirContent, blogs, listing, slugs, inflight, clicked, page,
                 form, reqs, mail, siteVars>>

\* The orders readdirSync may return the existing files in.
Orders(st) ==
  LET present == { f \in DOMAIN st : st[f].exists }
  IN  { o \in SeqsUpTo(present, Cardinality(present)) :
          Len(o) = Cardinality(present) /\ \A f \in present : \E i \in 1..Len(o) : o[i] = f }

\* const blogs = dirContent.map(file => matter(readFileSync(file)).data),
\* run once when the module is loaded; it throws when one matter call throws.
ReadBlogs(st, order) ==
  IF \E i \in 1..Len(order) : matter(st[order[i]]).threw
  THEN [threw |-> TRUE, posts |-> <<>>]
  ELSE [threw |-> FALSE, posts |-> [i \in 1..Len(order) |-> matter(st[order[i]]).data]]

\* No Home component is mounted and no Typed instance was created.
\* typed[c] is the instance the effect of component c holds in its closure
\* (0 while c is not mounted), renders[c] the renders of c since its mount,
\* live the instances that were created and not destroyed.
NoHome ==
  [typed |-> [c \in 1..MaxHomes |-> 0], renders |-> [c \in 1..MaxHomes |-> 0],
   live |-> {}, created |-> 0]

\* About before its first render; the window before any listener.
NoAbout == [mounted |-> FALSE, ran |-> FALSE, isSmallDevice |-> FALSE]

\* pending counts the resize events that wait to be dispatched.
NoWindow == [innerWidth |-> 1024, listeners |-> {}, pending |-> 0]

NoForm ==
  [name |-> "", email |-> "", message |-> "", successMessage |-> "",
   errorMessage |-> "", isSubmitting |-> FALSE]

InitContact ==
  /\ form = NoForm
  /\ reqs = <<>>
  /\ mail = <<>>

InitPage(stores) ==
  /\ store \in stores
  /\ dirContent \in Orders(store)
  /\ blogs = ReadBlogs(store, dirContent)
  /\ listing = NoListing
  /\ slugs = EmptyOcc
  /\ inflight = <<>>
  /\ clicked = ""
  /\ page = NoPage
  /\ toc = Unmounted
  /\ nav = NoNav
  /\ home = NoHome
  /\ about = NoAbout
  /\ win = NoWindow

InitRender == InitPage(RenderStores) /\ InitContact

InitLookup == InitPage(LookupStores) /\ InitContact

Init == InitPage(RenderStores \cup LookupStores) /\ InitContact

NextRender ==
  \/ \E slug \in RequestSlugs : Page(slug)
  \/ BlogSection
  \/ \E i \in 1..Cardinality(FileNames) : ReadMore(i)
  \/ ExtractHeadings

\* The post page over documents of every shape.
SpecRender == InitRender /\ [][NextRender]_vars

\* The post page and the listing over directories of every shape.
SpecLookup == InitLookup /\ [][NextRender]_vars

\* The content directory changes between requests: the author writes,
\* replaces or removes the file f.
WriteFile(f, file) ==
  /\ f \in DOMAIN store
  /\ file # store[f]
  /\ store' = [store EXCEPT ![f] = file]
  /\ UNCHANGED <<dirContent, blogs, listing, slugs, inflight, clicked, page, toc,
                 form, reqs, mail, nav, siteVars>>

\* Files of a directory that changes: any front-matter slug, no body.
ChangeFiles == FilesWith(MetaSlugs, { <<>> })

ChangeStores ==
  { [f \in FileNames |-> IF f = "a" THEN x ELSE y] : x \in ChangeFiles, y \in ChangeFiles }

InitChange == InitPage(ChangeStores) /\ InitContact

NextChange ==
  \/ \E slug \in RequestSlugs : Page(slug)
  \/ BlogSection
  \/ \E f \in FileNames, file \in ChangeFiles : WriteFile(f, file)
  \/ ExtractHeadings

SpecChange == InitChange /\ [][NextChange]_vars

\* Requests whose slug holds an encoded path separator: the route hands
\* the decoded segment to Page.
TraversalSlugs == {"../README"}

InitTraversal == InitPage(LookupStores) /\ InitContact

NextTraversal ==
  \/ \E slug \in RequestSlugs \cup TraversalSlugs : Page(slug)
  \/ ExtractHeadings

SpecTraversal == InitTraversal /\ [][NextTraversal]_vars

\* Requests of Page that overlap: documents of level-two headings that
\* give the same slugs in one document and across documents.
OverlapBlocks == { [marker |-> "##", text |-> t] : t \in { <<"A">>, <<"a", "-", "1">> } }

OverlapStores ==
  { [f \in FileNames |-> IF f = "a" THEN x ELSE y] :
      x \in FilesWith({"a"}, SeqsUpTo(OverlapBlocks, MaxBlocks)),
      y \in FilesWith({"b"}, ShortBodies) }

InitOverlap == InitPage(OverlapStores) /\ InitContact

NextOverlap ==
  \/ \E slug \in RequestSlugs : Page(slug)
  \/ \E slug \in RequestSlugs : PageBegin(slug)
  \/ \E i \in 1..MaxInflight : PageFinish(i)
  \/ ExtractHeadings

SpecOverlap == InitOverlap /\ [][NextOverlap]_vars

\* The user picks the k-th option of the select: the change event fires
\* when the option is not the selected one, and its handler assigns the
\* value of the option to window.location.href.
SelectOption(k) ==
  /\ toc.mounted
  /\ k \in 1..Len(Options(toc.headings))
  /\ k # nav.selected
  /\ nav' = [selected |-> k, assigned |-> TRUE, href |-> Options(toc.headings)[k].value]
  /\ UNCHANGED <<store, dirContent, blogs, listing, slugs, inflight, clicked, page, toc,
                 form, reqs, mail, siteVars>>

InitSelect == InitPage(OverlapStores) /\ InitContact

NextSelect ==
  \/ \E slug \in RequestSlugs : Page(slug)
  \/ ExtractHeadings
  \/ \E k \in 1..(MaxBlocks + 1) : SelectOption(k)

SpecSelect == InitSelect /\ [][NextSelect]_vars

\* The post page with its effect: React runs the effect of a committed
\* render, so the extraction cannot stay pending for ever.
InitEffect == InitPage(OverlapStores) /\ InitContact

NextEffect ==
  \/ \E slug \in RequestSlugs : Page(slug)
  \/ ExtractHeadings

SpecEffect == InitEffect /\ [][NextEffect]_vars /\ WF_vars(ExtractHeadings)

\* --------------------------------------------------------- the home page
\* Home is mounted: React commits its first render and runs its effect,
\* which creates one Typed instance and keeps it in its closure.
HomeMount(c) ==
  /\ home.typed[c] = 0
  /\ home.created < MaxTyped
  /\ home' = [home EXCEPT !.typed[c] = home.created + 1,
                           !.live = @ \cup {home.created + 1},
                           !.created = @ + 1]
  /\ UNCHANGED <<store, dirContent, blogs, listing, slugs, inflight, clicked, page, toc,
                 form, reqs, mail, nav, about, win>>

\* Home is rendered again: the dependency list of the effect is empty, so
\* neither the effect nor its cleanup runs.
HomeRender(c) ==
  /\ home.typed[c] # 0
  /\ home.renders[c] < MaxRenders
  /\ home' = [home EXCEPT !.renders[c] = @ + 1]
  /\ UNCHANGED <<store, dirContent, blogs, listing, slugs, inflight, clicked, page, toc,
                 form, reqs, mail, nav, about, win>>

\* A cleanup that leaves the animation running.
HomeUnmountLeaking(c) ==
  /\ home.typed[c] # 0
  /\ home' = [home EXCEPT !.typed[c] = 0, !.renders[c] = 0]
  /\ UNCHANGED <<store, dirContent, blogs, listing, slugs, inflight, clicked, page, toc,
                 form, reqs, mail, nav, about, win>>

\* Home is unmounted: the cleanup of its effect calls typed.destroy() on the
\* instance of its closure.
HomeUnmount(c) ==
  /\ home.typed[c] # 0
  /\ home' = [home EXCEPT !.typed[c] = 0, !.renders[c] = 0,
                           !.live = @ \ {home.typed[c]}]
  /\ UNCHANGED <<store, dirContent, blogs, listing, slugs, inflight, clicked, page, toc,
                 form, reqs, mail, nav, about, win>>

InitHome == InitPage({ [f \in FileNames |-> NoFile] }) /\ InitContact

NextHome ==
  \/ \E c \in 1..MaxHomes : HomeMount(c)
  \/ \E c \in 1..MaxHomes : HomeRender(c)
  \/ \E c \in 1..MaxHomes : HomeUnmount(c)

SpecHome == InitHome /\ [][NextHome]_vars

\* -------------------------------------------------------- the about page
\* The width at and below which About takes the device for a small one.
Breakpoint == 768
\* Widths the window may take: narrow ones, the breakpoint and its
\* neighbours, and a wide one.
Widths == {320, 500, 767, 768, 769, 1024}

\* A test that leaves the breakpoint itself to the wide devices.
HandleResizeStrict(w) == w < Breakpoint

\* handleResize: the value it passes to setIsSmallDevice.
HandleResize(w) == w <= Breakpoint

\* About is rendered for the first time: useState(false).
AboutRender ==
  /\ ~about.mounted
  /\ about' = [mounted |-> TRUE, ran |-> FALSE, isSmallDevice |-> FALSE]
  /\ UNCHANGED <<store, dirContent, blogs, listing, slugs, inflight, clicked, page, toc,
                 form, reqs, mail, nav, home, win>>

\* The effect of About: the initial check, then the listener is added.
AboutEffect ==
  /\ about.mounted /\ ~about.ran
  /\ about' = [about EXCEPT !.ran = TRUE, !.isSmallDevice = HandleResize(win.innerWidth)]
  /\ win' = [win EXCEPT !.listeners = @ \cup {"handleResize"}]
  /\ UNCHANGED <<store, dirContent, blogs, listing, slugs, inflight, clicked, page, toc,
                 form, reqs, mail, nav, home>>

\* The user resizes the window: the width changes and a resize event is
\* queued.
Resize(w) ==
  /\ w # win.innerWidth
  /\ win.pending < MaxEvents
  /\ win' = [win EXCEPT !.innerWidth = w, !.pending = @ + 1]
  /\ UNCHANGED <<store, dirContent, blogs, listing, slugs, inflight, clicked, page, toc,
                 form, reqs, mail, nav, home, about>>

\* The resize event is dispatched to the listeners of the window.
DispatchResize ==
  /\ win.pending > 0
  /\ win' = [win EXCEPT !.pending = @ - 1]
  /\ about' = IF "handleResize" \in win.listeners
              THEN [about EXCEPT !.isSmallDevice = HandleResize(win.innerWidth)]
              ELSE about
  /\ UNCHANGED <<store, dirContent, blogs, listing, slugs, inflight, clicked, page, toc,
                 form, reqs, mail, nav, home>>

\* About is unmounted: the cleanup of its effect removes the listener.
\* React runs the effect of a commit before it handles the unmount.
AboutUnmount ==
  /\ about.mounted /\ about.ran
  /\ about' = [about EXCEPT !.mounted = FALSE, !.ran = FALSE]
  /\ win' = [win EXCEPT !.listeners = @ \ {"handleResize"}]
  /\ UNCHANGED <<store, dirContent, blogs, listing, slugs, inflight, clicked, page, toc,
                 form, reqs, mail, nav, home>>

InitAbout == InitPage({ [f \in FileNames |-> NoFile] }) /\ InitContact

NextAbout ==
  \/ AboutRender
  \/ AboutEffect
  \/ \E w \in Widths : Resize(w)
  \/ DispatchResize
  \/ AboutUnmount

SpecAbout == InitAbout /\ [][NextAbout]_vars

\* ------------------------------------------------------ the contact form
\* A request body: text that is not JSON, the JSON value null, a JSON number
\* (its three fields read as undefined, here ""), or a JSON object with the
\* three fields.  Other clients send the first three, the form the last.
Body(kind, name, email, message) ==
  [kind |-> kind, name |-> name, email |-> email, message |-> message]

ApiBodies ==
  { Body("invalid", "", "", ""), Body("null", "", "", ""), Body("number", "", "", "") }

\* client: "waiting" while handleSubmit awaits fetch, "done" after, "api"
\* for a request that did not come from the form.
\* server: "inflight", "sending" while POST awaits sendMail, "responded".
NewRequest(origin, body) ==
  [origin |-> origin, body |-> body,
   client |-> IF origin = "form" THEN "waiting" ELSE "api",
   server |-> "inflight", sends |-> 0, outcome |-> "none",
   threw |-> FALSE, status |-> 0, text |-> "", fetch |-> "pending", shown |-> ""]

SetName(v) ==
  /\ form' = [form EXCEPT !.name = v]
  /\ UNCHANGED <<renderVars, reqs, mail>>

SetEmail(v) ==
  /\ form' = [form EXCEPT !.email = v]
  /\ UNCHANGED <<renderVars, reqs, mail>>

SetMessage(v) ==
  /\ form' = [form EXCEPT !.message = v]
  /\ UNCHANGED <<renderVars, reqs, mail>>

\* handleSubmit up to its await: the inputs are "required", so the form
\* submits only when the three are filled in.
HandleSubmit ==
  /\ Len(reqs) < MaxRequests
  /\ form.name # "" /\ form.email # "" /\ form.message # ""
  /\ form' = [form EXCEPT !.isSubmitting = TRUE]
  /\ reqs' = Append(reqs, NewRequest("form", Body("object", form.name, form.email, form.message)))
  /\ UNCHANGED <<renderVars, mail>>

\* Any other client of the route.
ApiPost(body) ==
  /\ Len(reqs) < MaxRequests
  /\ reqs' = Append(reqs, NewRequest("api", body))
  /\ UNCHANGED <<renderVars, form, mail>>

\* A catch block that answers as the try block does.
FailureAsSuccess(r) ==
  [r EXCEPT !.server = "responded", !.status = 200,
            !.text = "Your message has been sent successfully!"]

\* A catch block that puts the request back to be handled again.
FailureRetried(r) == [r EXCEPT !.server = "inflight"]

\* A catch block that reports what failed.
FailureNamingCause(r) ==
  [r EXCEPT !.server = "responded", !.status = 500,
            !.text = IF r.outcome = "none" THEN "bad request" ELSE r.outcome]

\* The catch block of POST.
FailureResponse(r) ==
  [r EXCEPT !.server = "responded", !.status = 500,
            !.text = "An error occurred. Please try again later."]

\* The return of the try block of POST.
SuccessResponse(r) ==
  [r EXCEPT !.server = "responded", !.status = 200,
            !.text = "Your message has been sent successfully!"]

\* POST up to its await of sendMail: req.json() throws on text that is not
\* JSON, the destructuring throws on null; both land in the catch.
PostReceive(i) ==
  /\ i \in 1..Len(reqs)
  /\ reqs[i].server = "inflight"
  /\ IF reqs[i].body.kind \in {"object", "number"}
     THEN /\ reqs' = [reqs EXCEPT ![i].server = "sending", ![i].sends = @ + 1]
          /\ mail' = Append(mail, [req |-> i, from |-> reqs[i].body.email,
                                    subject |-> reqs[i].body.name,
                                    text |-> reqs[i].body.message])
     ELSE /\ reqs' = [reqs EXCEPT ![i] = FailureResponse(@)]
          /\ mail' = mail
  /\ UNCHANGED <<renderVars, form>>

\* POST after sendMail settled.
PostSettle(i, outcome) ==
  /\ i \in 1..Len(reqs)
  /\ reqs[i].server = "sending"
  /\ reqs' = [reqs EXCEPT ![i] =
                 IF outcome = "ok"
                 THEN SuccessResponse([@ EXCEPT !.outcome = outcome])
                 ELSE FailureResponse([@ EXCEPT !.outcome = outcome])]
  /\ UNCHANGED <<renderVars, form, mail>>

\* A handler that empties the fields whatever the response says.
FetchResolveClearingAlways(i) ==
  /\ i \in 1..Len(reqs)
  /\ reqs[i].client = "waiting" /\ reqs[i].server = "responded"
  /\ form' = [form EXCEPT
                 !.successMessage = IF reqs[i].status \in 200..299
                                    THEN "Your message has been sent successfully!" ELSE "",
                 !.errorMessage = IF reqs[i].status \in 200..299
                                  THEN "" ELSE "Something went wrong. Please try again later.",
                 !.isSubmitting = FALSE,
                 !.name = "", !.email = "", !.message = ""]
  /\ reqs' = [reqs EXCEPT ![i].client = "done", ![i].fetch = "resolved",
                            ![i].shown = IF reqs[i].status \in 200..299
                                         THEN form'.successMessage ELSE form'.errorMessage]
  /\ UNCHANGED <<renderVars, mail>>

\* handleSubmit after fetch resolved: response.ok or not.
FetchResolve(i) ==
  /\ i \in 1..Len(reqs)
  /\ reqs[i].client = "waiting" /\ reqs[i].server = "responded"
  /\ IF reqs[i].status \in 200..299
     THEN /\ form' = [form EXCEPT
                        !.successMessage = "Your message has been sent successfully!",
                        !.isSubmitting = FALSE, !.errorMessage = "",
                        !.name = "", !.email = "", !.message = ""]
          /\ reqs' = [reqs EXCEPT ![i].client = "done", ![i].fetch = "resolved",
                                    ![i].shown = form'.successMessage]
     ELSE /\ form' = [form EXCEPT
                        !.errorMessage = "Something went wrong. Please try again later.",
                        !.successMessage = ""]
          /\ reqs' = [reqs EXCEPT ![i].client = "done", ![i].fetch = "resolved",
                                    ![i].shown = form'.errorMessage]
  /\ UNCHANGED <<renderVars, mail>>

\* A catch branch that sets the error message and leaves the success
\* message of an earlier submission in place.
FetchRejectKeepingSuccess(i) ==
  /\ i \in 1..Len(reqs)
  /\ reqs[i].client = "waiting"
  /\ form' = [form EXCEPT !.errorMessage = "An error occurred. Please try again later."]
  /\ reqs' = [reqs EXCEPT ![i].client = "done", ![i].fetch = "rejected",
                            ![i].shown = form'.errorMessage]
  /\ UNCHANGED <<renderVars, mail>>

\* handleSubmit after fetch rejected (the site could not be reached or the
\* connection broke): the catch branch.
FetchReject(i) ==
  /\ i \in 1..Len(reqs)
  /\ reqs[i].client = "waiting"
  /\ form' = [form EXCEPT
                 !.errorMessage = "An error occurred. Please try again later.",
                 !.successMessage = ""]
  /\ reqs' = [reqs EXCEPT ![i].client = "done", ![i].fetch = "rejected",
                            ![i].shown = form'.errorMessage]
  /\ UNCHANGED <<renderVars, mail>>

\* The contact page alone: no post is requested, the content directory is
\* left empty.
InitForm == InitPage({ [f \in FileNames |-> NoFile] }) /\ InitContact

NextContact ==
  \/ \E v \in FieldValues : SetName(v)
  \/ \E v \in FieldValues : SetEmail(v)
  \/ \E v \in FieldValues : SetMessage(v)
  \/ HandleSubmit
  \/ \E b \in ApiBodies : ApiPost(b)
  \/ \E i \in 1..MaxRequests : PostReceive(i)
  \/ \E i \in 1..MaxRequests, o \in SendOutcomes : PostSettle(i, o)
  \/ \E i \in 1..MaxRequests : FetchResolve(i)
  \/ \E i \in 1..MaxRequests : FetchReject(i)

SpecContact == InitForm /\ [][NextContact]_vars

Next ==
  \/ NextRender \/ NextChange \/ NextTraversal \/ NextOverlap \/ NextEffect \/ NextSelect
  \/ NextHome \/ NextAbout
  \/ NextContact

Spec == Init /\ [][Next]_vars

\* ------------------------------------------------------------ the claims
Missing(slug) == ~ExistsSync(store, FilePath(slug))

C2_ExactSlugMatch ==
  /\ page.status = "rendered" => page.data.slug = page.slug
  /\ (page.status # "none"
        /\ \E f \in DOMAIN store : store[f].exists /\ store[f].front.slug = page.slug)
       => page.status = "rendered"
  /\ clicked # "" => (page.status = "rendered" /\ page.file = clicked)

IsHeadingOpen(t) == t.k = "open" /\ t.tag \in HeadingTags

\* C3: in the markup of a rendered document every heading carries an id and
\* no two headings carry the same id.
C3_UniqueAnchors ==
  page.status = "rendered" =>
    LET html == page.htmlContent
    IN  \A i, j \in 1..Len(html) :
          (IsHeadingOpen(html[i]) /\ IsHeadingOpen(html[j]) /\ i # j) =>
            (html[i].hasId /\ html[j].hasId /\ html[i].id # html[j].id)

\* C3 witness: two headings of the same text were rendered, the first with
\* the plain slug and the second with the suffix -1.
C3_Witness ==
  /\ page.status = "rendered"
  /\ \E i, j \in 1..Len(page.tree.children) :
       /\ i < j
       /\ page.tree.children[i].tag \in HeadingTags
       /\ page.tree.children[j].tag \in HeadingTags
       /\ page.tree.children[i].text = page.tree.children[j].text
       /\ page.tree.children[i].id = <<"a">>
       /\ page.tree.children[j].id = <<"a", "-", "1">>

\* C4: in the markup of a rendered document every heading that has an id is
\* followed by a link to itself, whose target is # and the id.
C4_SelfLinks ==
  page.status = "rendered" =>
    LET html == page.htmlContent
    IN  \A i \in 1..Len(html) :
          (IsHeadingOpen(html[i]) /\ html[i].hasId) =>
            /\ i < Len(html)
            /\ html[i + 1].k = "open"
            /\ html[i + 1].tag = "a"
            /\ html[i + 1].text = <<"#">> \o html[i].id

\* C5: every id that the run of the transformers put on a heading of the
\* tree is on the same heading in the string file.process returns.
C5_AnchorsSerialized ==
  page.status = "rendered" =>
    \A n \in 1..Len(page.tree.children) :
      LET e == page.tree.children[n]
      IN  (e.tag \in HeadingTags) =>
            /\ e.hasId
            /\ \E i \in 1..Len(page.htmlContent) :
                 /\ IsHeadingOpen(page.htmlContent[i])
                 /\ page.htmlContent[i].tag = e.tag
                 /\ page.htmlContent[i].hasId
                 /\ page.htmlContent[i].id = e.id
                 /\ Cardinality({ k \in 1..(i - 1) : IsHeadingOpen(page.htmlContent[k]) })
                      = Cardinality({ m \in 1..(n - 1) :
                                        page.tree.children[m].tag \in HeadingTags })

\* C5 witness: a document with a heading was rendered and its id is in the
\* returned string.
C5_Witness ==
  /\ page.status = "rendered"
  /\ \E i \in 1..Len(page.htmlContent) :
       IsHeadingOpen(page.htmlContent[i]) /\ page.htmlContent[i].hasId

\* The positions of the h2 elements of a fragment, and the n-th of them.
H2Positions(html) == { i \in 1..Len(html) : html[i].k = "open" /\ html[i].tag = "h2" }
NthH2(html, n) ==
  CHOOSE i \in H2Positions(html) :
    Cardinality({ j \in H2Positions(html) : j < i }) = n - 1

\* C10: once the effect has run, the headings of OnThisPage are the text and
\* the id of the h2 elements of its fragment, one entry for each and in the
\* order of the fragment; h1 and h3 add no entry.
C10_TocIsH2 ==
  (toc.mounted /\ ~toc.pending) =>
    LET html == toc.htmlcontent
    IN  /\ html = page.htmlContent
        /\ Len(toc.headings) = Cardinality(H2Positions(html))
        /\ \A n \in 1..Len(toc.headings) :
             LET i == NthH2(html, n)
             IN  /\ toc.headings[n].id = html[i].id
                 /\ \E j \in (i + 1)..Len(html) :
                      /\ html[j].k = "text"
                      /\ html[j].text = toc.headings[n].text
                      /\ \A k \in i..j : html[k].k # "close" \/ html[k].tag = "a"

\* C10 witness: the effect has run on a fragment that holds an h2 and a
\* heading of another level, and the table has the one entry of the h2.
C10_Witness ==
  /\ toc.mounted /\ ~toc.pending
  /\ Len(toc.headings) = 1
  /\ \E i \in 1..Len(toc.htmlcontent) :
       IsHeadingOpen(toc.htmlcontent[i]) /\ toc.htmlcontent[i].tag # "h2"

\* C11: a rendered document without any heading gives an empty sequence of
\* topics without an error, and once the effect has run OnThisPage renders
\* no list item and no option besides the label.
C11_EmptyToc ==
  (page.status = "rendered"
     /\ \A i \in 1..Len(page.htmlContent) : ~IsHeadingOpen(page.htmlContent[i])) =>
    /\ ~page.threw
    /\ Topics(page.htmlContent) = <<>>
    /\ (toc.mounted /\ ~toc.pending) =>
         /\ toc.headings = <<>>
         /\ ListItems(toc.headings) = <<>>
         /\ Len(Options(toc.headings)) = 1

\* C11 witness: a document of text blocks only was rendered and the effect
\* has run.
C11_Witness ==
  /\ page.status = "rendered"
  /\ Len(page.tree.children) > 0
  /\ \A i \in 1..Len(page.htmlContent) : ~IsHeadingOpen(page.htmlContent[i])
  /\ toc.mounted /\ ~toc.pending
  /\ toc.headings = <<>>

\* C12: a file whose front matter is absent or malformed is rendered by
\* Page with the empty mapping as data and its whole text as body, and the
\* listing renders whatever the files start with.
C12_LenientFrontMatter ==
  /\ (page.status # "none" /\ ~Missing(page.slug) /\ store[page.slug].fm # "valid") =>
       /\ page.status = "rendered"
       /\ ~page.threw
       /\ page.data = EmptyData
       /\ page.htmlContent = Process(store[page.slug].body, EmptyOcc).value
  /\ listing.status # "none" => listing.status = "rendered"

\* C13: a fenced block whose language the highlighter does not know does
\* not fail the render: the page is rendered without an exception, every
\* block of the body is in the markup, the block itself is a pre with its
\* text and without highlighting, and only the blocks in a known language
\* carry highlight spans.
OpenCount(html, tag) ==
  Cardinality({ i \in 1..Len(html) : html[i].k = "open" /\ html[i].tag = tag })

Rendered(p) == SelectSeq(p.tree.children, LAMBDA e : e.tag # "#ws")

HasUnknownFence(body) == \E i \in 1..Len(body) : body[i].marker = "~~~zz"

C13_UnknownLanguage ==
  (page.status # "none" /\ ~Missing(page.slug) /\ HasUnknownFence(store[page.slug].body)) =>
    LET body == store[page.slug].body
    IN  /\ page.status = "rendered" /\ ~page.threw
        /\ Len(Rendered(page)) = Len(body)
        /\ \A i \in 1..Len(body) :
              body[i].marker = "~~~zz" =>
                /\ Rendered(page)[i].tag = "pre"
                /\ Rendered(page)[i].text = body[i].text
                /\ ~Rendered(page)[i].hl
        /\ OpenCount(page.htmlContent, "pre")
             = Cardinality({ i \in 1..Len(body) : body[i].marker \in FenceMarkers })
        /\ OpenCount(page.htmlContent, "span")
             = Cardinality({ i \in 1..Len(body) : body[i].marker = "~~~js" })

C13_Witness ==
  /\ page.status = "rendered"
  /\ \E i, j \in 1..Len(store[page.slug].body) :
        /\ store[page.slug].body[i].marker = "~~~zz"
        /\ store[page.slug].body[j].marker = "~~~js"

\* C14: the markup that Page embeds is a bare fragment: it holds no
\* doctype and no html, head, title or body element.
DocumentTags == {"html", "head", "title", "body"}

C14_FragmentNotWrapped ==
  page.status = "rendered" =>
    \A i \in 1..Len(page.htmlContent) :
      /\ page.htmlContent[i].k # "doctype"
      /\ page.htmlContent[i].tag \notin DocumentTags

\* C15 as stated: the id of a heading is its text in lower case with each
\* run of characters other than letters and digits replaced by one
\* separator, with a numeric suffix when an earlier heading has that id.
Headings(p) == SelectSeq(p.tree.children, LAMBDA e : e.tag \in HeadingTags)

Suffixed(base, n) == IF n = 0 THEN base ELSE base \o <<"-">> \o NatToStr(n)

C15_SingleSeparatorPerRun ==
  page.status = "rendered" =>
    \A i \in 1..Len(Headings(page)) :
      \E n \in 0..Len(Headings(page)) :
        Headings(page)[i].id = Suffixed(SluggerSingleSeparator(Headings(page)[i].text), n)

\* C15 amended: the id of a heading is a function of its text and of the
\* headings before it.  Its base is the text in lower case, without the
\* characters other than letters, digits, "-", "_" and space, and with "-"
\* in place of each space (so that spaces around a removed character leave
\* two separators); the id is the base when no earlier heading has it, and
\* otherwise the base with "-n" for the smallest n >= 1 that gives an id no
\* earlier heading has.
Clean(text) ==
  LET kept == SelectSeq([i \in 1..Len(text) |-> Lower(text[i])], Kept)
  IN  [i \in 1..Len(kept) |-> IF kept[i] = " " THEN "-" ELSE kept[i]]

RECURSIVE ExpectedIds(_)
ExpectedIds(texts) ==
  IF texts = <<>> THEN <<>>
  ELSE LET front == ExpectedIds(SubSeq(texts, 1, Len(texts) - 1))
           used == { front[i] : i \in 1..Len(front) }
           base == Clean(texts[Len(texts)])
           free == { n \in 1..Len(texts) : Suffixed(base, n) \notin used }
           least == CHOOSE n \in free : \A m \in free : n <= m
       IN  Append(front, IF base \in used THEN Suffixed(base, least) ELSE base)

C15_SluggerIds ==
  page.status = "rendered" =>
    LET hs == Headings(page)
    IN  [i \in 1..Len(hs) |-> hs[i].id] = ExpectedIds([i \in 1..Len(hs) |-> hs[i].text])

\* C15 witness: two headings with punctuation between spaces were rendered,
\* the first with two separators in its id, the second with the suffix.
C15_Witness ==
  /\ page.status = "rendered"
  /\ Len(Headings(page)) = 2
  /\ Headings(page)[1].text = <<"A", " ", "&", " ", "b">>
  /\ Headings(page)[1].id = <<"a", "-", "-", "b">>
  /\ Headings(page)[2].id = <<"a", "-", "-", "b", "-", "1">>

\* C16: the document with title "Hello", slug "hello" and the single
\* heading "## Section One" is rendered with the title "Hello" in the
\* header of the page; its markup holds exactly one h2, and once the effect
\* of OnThisPage has run the table of contents has exactly one entry, with
\* the text "Section One" and the non-empty id "section-one".
SectionOneId == <<"s", "e", "c", "t", "i", "o", "n", "-", "o", "n", "e">>

C16_HelloScenario ==
  (store = HelloStore /\ page.slug = "hello") =>
    /\ page.status = "rendered"
    /\ Chrome(page).title = "Hello"
    /\ Topics(page.htmlContent) = << [text |-> SectionOne, id |-> SectionOneId] >>
    /\ (toc.mounted /\ ~toc.pending) =>
         /\ Len(toc.headings) = 1
         /\ toc.headings[1].text = SectionOne
         /\ toc.headings[1].id # <<>>
         /\ toc.headings[1].id = SectionOneId
         /\ Len(ListItems(toc.headings)) = 1

C16_Witness ==
  /\ store = HelloStore /\ page.slug = "hello" /\ page.status = "rendered"
  /\ toc.mounted /\ ~toc.pending /\ Len(toc.headings) = 1

\* C17: the markup and the tree of a rendered document are those of a
\* render of its content alone, with a slugger nobody used before,
\* whatever was rendered before it or began or ended while it was
\* suspended; the same holds for what a suspended request has so far.
Alone(content) == Process(content, EmptyOcc)

C17_NoSharedState ==
  /\ page.status = "rendered" =>
       /\ page.htmlContent = Alone(matter(store[page.file]).content).value
       /\ page.tree.children = Alone(matter(store[page.file]).content).tree.children
  /\ \A i \in 1..Len(inflight) :
       inflight[i].tree.children
         = RunSync(matter(store[inflight[i].slug]).content, EmptyOcc).children

\* C17 witness: a document with a heading is rendered while another request
\* is suspended, the slugger holds slugs, and the table of contents still
\* shows the headings of a document that was rendered before.
C17_Witness ==
  /\ page.status = "rendered" /\ page.file = "b"
  /\ Len(Headings(page)) > 0
  /\ Len(inflight) > 0
  /\ slugs # EmptyOcc
  /\ toc.mounted /\ toc.pending
  /\ toc.headings # <<>> /\ toc.headings # Topics(page.htmlContent)

Responded(r) == r.server = "responded"
CountMail(i) == Cardinality({ k \in 1..Len(mail) : mail[k].req = i })
SuccessText == "Your message has been sent successfully!"

\* C18: what a request produces is made from the content directory as it is
\* at that request: a page is the page of the file as stored now, and the
\* cards of a listing are those of the front matter of the files stored
\* now, in an order a listing of the directory may have.
FreshCards(st) ==
  { LET posts == ReadBlogs(st, o).posts
    IN  [i \in 1..(Len(posts) - 1) |-> BlogCard(posts[i])] : o \in Orders(st) }

C18_ReflectsStoreAtRequest ==
  [][ /\ page' # page => page' = PageResult(store, page'.slug, EmptyOcc)
      /\ listing' # listing =>
           (listing'.status = "rendered" /\ listing'.cards \in FreshCards(store)) ]_vars

\* C19: a request for a slug that names no file ends with nothing rendered:
\* no file was read, there is no tree and no markup, no front matter, no
\* header and no table of contents, and the slugger is as it was, so no
\* transformer ran.  No step of any request changes the content directory.
C19_AbsentRendersNothing ==
  [][ /\ store' = store
      /\ (page'.status # "none" /\ ~ExistsSync(store', FilePath(page'.slug))) =>
           /\ page' = PageOutcome("undefined", page'.slug, FALSE, "", EmptyData, NoTree, <<>>)
           /\ toc' = Unmounted
           /\ slugs' = slugs ]_vars

\* C19 witness: after a document with a heading was rendered, a request for
\* a slug that names no file was answered.
C19_Witness ==
  /\ page.status = "undefined" /\ Missing(page.slug)
  /\ slugs # EmptyOcc
  /\ \E f \in DOMAIN store : store[f].exists

\* C20: once the effect has run, every entry of the table of contents has
\* a non-empty id, no two entries have the same id, and the id of an entry
\* is the id of exactly one element of the displayed markup, the h2 the
\* entry was derived from.
ElementsWithId(html, id) ==
  { i \in 1..Len(html) : html[i].k = "open" /\ html[i].hasId /\ html[i].id = id }

C20_LinksResolve ==
  (page.status = "rendered" /\ toc.mounted /\ ~toc.pending) =>
    /\ Len(toc.headings) = Cardinality(H2Positions(page.htmlContent))
    /\ \A n \in 1..Len(toc.headings) :
         /\ toc.headings[n].id # <<>>
         /\ toc.headings[n].id = page.htmlContent[NthH2(page.htmlContent, n)].id
         /\ ElementsWithId(page.htmlContent, toc.headings[n].id)
              = { NthH2(page.htmlContent, n) }
    /\ \A m, n \in 1..Len(toc.headings) :
         m # n => toc.headings[m].id # toc.headings[n].id

\* C6: POST never throws; it answers 200 exactly when sendMail was called
\* and settled without error, and 500 in every other case; the form shows
\* its success message only for a request that was answered 200.
C6_SuccessIffSent ==
  /\ \A i \in 1..Len(reqs) :
       LET r == reqs[i]
       IN  /\ ~r.threw
           /\ Responded(r) =>
                /\ r.status \in {200, 500}
                /\ r.status = 200 <=> (r.sends = 1 /\ r.outcome = "ok")
           /\ r.shown = SuccessText => (Responded(r) /\ r.status = 200)
  /\ form.successMessage # "" =>
       \E i \in 1..Len(reqs) :
         /\ reqs[i].origin = "form" /\ reqs[i].client = "done"
         /\ reqs[i].status = 200 /\ reqs[i].outcome = "ok"

\* C6 witness: one submission was answered 200 and the form shows the
\* success message, another request was answered 500.
C6_Witness ==
  /\ form.successMessage # ""
  /\ \E i, j \in 1..Len(reqs) :
       /\ reqs[i].client = "done" /\ reqs[i].status = 200
       /\ Responded(reqs[j]) /\ reqs[j].status = 500

C8_SingleInFlight ==
  Cardinality({ i \in 1..Len(reqs) :
                  reqs[i].origin = "form" /\ reqs[i].client = "waiting" }) <= 1

FailedForUser(r) == r.origin = "form" /\ r.client = "done" /\ r.shown # SuccessText
FailedForCaller(r) == Responded(r) /\ r.status # 200

\* C9 as stated: any two failed submissions show the same message to the
\* user, and any two failed requests get the same response.
C9_OneFailureClass ==
  \A i, j \in 1..Len(reqs) :
    /\ (FailedForUser(reqs[i]) /\ FailedForUser(reqs[j])) => reqs[i].shown = reqs[j].shown
    /\ (FailedForCaller(reqs[i]) /\ FailedForCaller(reqs[j])) =>
         (reqs[i].status = reqs[j].status /\ reqs[i].text = reqs[j].text)

\* C9 amended: any two requests that POST answered with a failure got the
\* same status and the same text whatever failed, and any two submissions
\* whose fetch ended the same way (resolved with a failure, or rejected)
\* show the same message; the message after a rejected fetch is another
\* one than the message after a failure response.
C9_OneClassPerPath ==
  \A i, j \in 1..Len(reqs) :
    /\ (FailedForCaller(reqs[i]) /\ FailedForCaller(reqs[j])) =>
         (reqs[i].status = reqs[j].status /\ reqs[i].text = reqs[j].text)
    /\ (FailedForUser(reqs[i]) /\ FailedForUser(reqs[j])
          /\ reqs[i].fetch = reqs[j].fetch) => reqs[i].shown = reqs[j].shown
    /\ (FailedForUser(reqs[i]) /\ FailedForUser(reqs[j])
          /\ reqs[i].fetch # reqs[j].fetch) => reqs[i].shown # reqs[j].shown
    /\ (FailedForUser(reqs[i]) /\ reqs[i].fetch = "resolved") =>
         (FailedForCaller(reqs[i]) /\ reqs[i].status = 500)

\* C9 witness: two requests failed for different reasons, one before the
\* send and one in it, and the second was shown to the user.
C9_Witness ==
  \E i, j \in 1..Len(reqs) :
    /\ FailedForCaller(reqs[i]) /\ reqs[i].outcome = "none"
    /\ FailedForCaller(reqs[j]) /\ reqs[j].outcome \in SendOutcomes \ {"ok"}
    /\ FailedForUser(reqs[j]) /\ reqs[j].fetch = "resolved"

\* C21: once every submission of the form has completed (its fetch resolved
\* or rejected), isSubmitting is false and the button no longer reads
\* "Sending...".
ButtonLabel == IF form.isSubmitting THEN "Sending..." ELSE "Send Message"

AllCompleted == \A i \in 1..Len(reqs) : reqs[i].origin = "form" => reqs[i].client = "done"

C21_SubmittingCleared ==
  AllCompleted => (~form.isSubmitting /\ ButtonLabel = "Send Message")

\* C22: the success message and the error message are never both shown.  A
\* step in which a submission completes leaves the message of that
\* submission: the success message alone when its response was OK, an error
\* message alone otherwise; every other step leaves both messages as they
\* are, so what is shown is the outcome of the submission completed last.
Completes(i) ==
  /\ i \in 1..Len(reqs)
  /\ Len(reqs') = Len(reqs)
  /\ reqs[i].client = "waiting" /\ reqs'[i].client = "done"

CompletedOk(r) == r.fetch = "resolved" /\ r.status \in 200..299

C22_OneMessageOfLastOutcome ==
  [][ /\ ~(form'.successMessage # "" /\ form'.errorMessage # "")
      /\ \A i \in 1..MaxRequests :
           Completes(i) =>
             IF CompletedOk(reqs'[i])
             THEN form'.successMessage = SuccessText /\ form'.errorMessage = ""
             ELSE form'.successMessage = "" /\ form'.errorMessage # ""
      /\ (\A i \in 1..MaxRequests : ~Completes(i)) =>
           /\ form'.successMessage = form.successMessage
           /\ form'.errorMessage = form.errorMessage ]_vars

\* C22 witness: two submissions overlapped; one succeeded and the other
\* failed after it, and the form shows the error alone.
C22_Witness ==
  /\ \E i, j \in 1..Len(reqs) :
       /\ i # j
       /\ reqs[i].client = "done" /\ reqs[i].shown = SuccessText
       /\ reqs[j].client = "done" /\ reqs[j].shown # SuccessText
  /\ form.successMessage = "" /\ form.errorMessage # ""

\* C23: a step in which a submission completes with an OK response leaves
\* name, email and message empty; a step in which a submission completes
\* with another response or with a rejected fetch leaves the three as they
\* were.
Fields(f) == <<f.name, f.email, f.message>>

C23_FieldsAfterSubmission ==
  [][ \A i \in 1..MaxRequests :
        Completes(i) =>
          IF CompletedOk(reqs'[i])
          THEN Fields(form') = <<"", "", "">>
          ELSE Fields(form') = Fields(form) ]_vars

\* C23 witness: one submission succeeded, another failed with a response
\* that was not OK, and the three fields are filled in.
C23_Witness ==
  /\ \E i, j \in 1..Len(reqs) :
       /\ reqs[i].client = "done" /\ CompletedOk(reqs[i])
       /\ reqs[j].client = "done" /\ reqs[j].fetch = "resolved" /\ reqs[j].status = 500
  /\ form.name # "" /\ form.email # "" /\ form.message # ""

\* C24: a rendered listing has one card for every file of the content
\* directory: the cards are those of the files in the order of the
\* directory listing, none left out and none twice.
CardOfFile(f) == BlogCard(matter(store[f]).data)

C24_OneCardPerDocument ==
  listing.status = "rendered" =>
    /\ Len(listing.cards) = Cardinality({ f \in DOMAIN store : store[f].exists })
    /\ listing.cards = [i \in 1..Len(dirContent) |-> CardOfFile(dirContent[i])]

\* C25: whatever the slug, a rendered page is the page of a file that lies
\* directly in the content directory: the path Page tested and read
\* resolves to content/, and the markup is that of a file of the store.
C25_ReadsContentOnly ==
  page.status = "rendered" =>
    /\ Resolve(FilePath(page.slug)).dir = <<"content">>
    /\ \E f \in DOMAIN store :
         /\ store[f].exists
         /\ page.htmlContent = Process(matter(store[f]).content, EmptyOcc).value

\* C26: the table of contents is empty until its first extraction; whenever
\* the fragment has changed and the extraction is pending, it is eventually
\* done (or the component is gone); and once it is done the entries are
\* those of the fragment on display, none of an earlier fragment.
Extracted ==
  /\ toc.headings = Topics(toc.htmlcontent)
  /\ toc.htmlcontent = page.htmlContent

C26_TocFollowsFragment ==
  /\ [](~toc.mounted => toc.headings = <<>>)
  /\ []((toc.mounted /\ ~toc.pending) => Extracted)
  /\ ((toc.mounted /\ toc.pending) ~> (~toc.mounted \/ (~toc.pending /\ Extracted)))

\* C26 witness: the fragment changed after an extraction: the entries on
\* display are those of the earlier fragment and the extraction from the
\* new one is pending.
C26_Witness ==
  /\ toc.mounted /\ toc.pending
  /\ toc.headings # <<>>
  /\ Topics(toc.htmlcontent) # <<>>
  /\ toc.headings # Topics(toc.htmlcontent)

\* C27: every choice in the select assigns to the location the anchor of a
\* listed heading: "#" and the non-empty id of one of the headings.
C27_SelectGoesToHeading ==
  [][ (nav' # nav /\ nav'.assigned /\ toc' = toc) =>
        \E n \in 1..Len(toc.headings) :
          /\ toc.headings[n].id # <<>>
          /\ nav'.href = <<"#">> \o toc.headings[n].id ]_vars

\* C28: the live Typed instances are exactly those held by the mounted Home
\* components, one for each: their number is the number of mounted
\* components, and the instance of an unmounted component is not live.
MountedHomes == { c \in 1..MaxHomes : home.typed[c] # 0 }

C28_OneTypedPerHome ==
  /\ home.live = { home.typed[c] : c \in MountedHomes }
  /\ Cardinality(home.live) = Cardinality(MountedHomes)
  /\ \A n \in home.live : n \in 1..home.created

\* C28 witness: after mounts, a render and an unmount, one component is
\* mounted with an instance that is not the first one created.
C28_Witness ==
  /\ home.created = MaxTyped
  /\ Cardinality(MountedHomes) = 1
  /\ \E c \in MountedHomes : home.renders[c] > 0
  /\ Cardinality(home.live) = 1

\* C29: once the effect of About has run and no resize event waits to be
\* dispatched, isSmallDevice is true exactly when the width of the window
\* is at most 768; while About is not mounted the window has no listener
\* of it and isSmallDevice is not updated.
C29_SmallDeviceFollowsWidth ==
  [][ /\ (about'.mounted /\ about'.ran /\ win'.pending = 0) =>
           (about'.isSmallDevice <=> win'.innerWidth <= 768)
      /\ ~about'.mounted => win'.listeners = {}
      /\ (~about.mounted /\ ~about'.mounted) =>
           about'.isSmallDevice = about.isSmallDevice ]_vars

\* C29 witness: About was mounted on a wide window, the window was resized
\* to the breakpoint, the event was dispatched, and isSmallDevice is true.
C29_Witness ==
  /\ about.mounted /\ about.ran /\ win.pending = 0
  /\ win.innerWidth = 768
  /\ about.isSmallDevice

====
